---- MODULE Spec2Model ----
(***************************************************************************)
(* State-machine model of the streaming harvest in src/server.js (the GET   *)
(* /scrape handler, scrapeProfiles and testOpenAIBatch) and of the         *)
(* synchronous enrichment variant in src/unnamed/part_000 (the POST        *)
(* /scrape handler and its scrapeProfiles).                                *)
(* One action is one run of the code between two suspension points         *)
(* (awaits); the browser engine and the extraction service are the         *)
(* environment, whose answers are drawn nondeterministically.              *)
(***************************************************************************)
EXTENDS Integers, Sequences, FiniteSets

\* ---------------------------------------------------------------- bounds
\* Largest number of listing cards $$eval returns for one page.
MaxCards == 1
\* Largest number of records in one JSON array answered by the service.
MaxRecords == 1
\* Largest number of profile cards found on the listing page (part_000:117).
MaxProfileCards == 2

\* ------------------------------------------------------ program constants
\* server.js:59  const maxPages = 2
maxPages == 2

VARIABLES
    pc,          \* position of the handler / scrapeProfiles (the pending await)
    req,         \* the request's query: url, fields, cookies
    events,      \* every sendEvent call so far, in call order
    ended,       \* how many times res.end() was called
    browser,     \* "none" | "open" | "closed"
    currentPage, \* server.js:58
    currentUrl,  \* server.js:60 (0 = the url of the request, n = url after n-th Next)
    finalHtml,   \* server.js:61, the fragments collected so far
    nextButtons, \* server.js:89, length of the last $$ answer (-1: not queried)
    promises,    \* server.js:116, pagePromises: one derived promise per element
    all,         \* state of Promise.all(pagePromises)
    allResults,  \* server.js:57
    faults,      \* history: the engine calls that failed (threw or timed out)
    loads,       \* history: number of page.goto calls that returned or threw
    batchSizes   \* history: the number of cards each $$eval call returned

\* the state of the enrichment variant (src/unnamed/part_000)
VARIABLES
    epc,          \* position of the POST handler / scrapeProfiles ("off": not run)
    body,         \* part_000:182, req.body: url, cookies
    sent,         \* the HTTP responses sent so far, in order
    ebrowser,     \* "none" | "open" | "closed"
    profileCards, \* part_000:117, profileCards.length (-1: not queried yet)
    cardIdx,      \* part_000:123, the loop index i
    profileLink,  \* part_000:131, 0 for null, else the number of the card
    results,      \* part_000:120
    openPages,    \* the secondary pages (profilePage) that are open
    efaults,      \* history: the engine calls that failed outside the entity try
    entityLog     \* history: what the engine answered for each entity

streamVars == <<pc, req, events, ended, browser, currentPage, currentUrl, finalHtml,
                nextButtons, promises, all, allResults, faults, loads, batchSizes>>
enrichVars == <<epc, body, sent, ebrowser, profileCards, cardIdx, profileLink,
                results, openPages, efaults, entityLog>>
vars == <<streamVars, enrichVars>>

\* --------------------------------------------------------------- helpers
\* server.js:191-194  one SSE event; index is the ${...} number of the message
Ev(e, m, i, d) == [event |-> e, message |-> m, index |-> i, data |-> d]
Msg(e, m) == Ev(e, m, 0, <<>>)

RECURSIVE Flat(_)
\* Array.prototype.flat() on an array of arrays (server.js:129)
Flat(ss) == IF ss = <<>> THEN <<>> ELSE Head(ss) \o Flat(Tail(ss))

\* the query strings a request can carry (server.js:216-222)
Requests ==
    [url : BOOLEAN, fieldsOk : BOOLEAN, cookies : {"array", "notArray", "badJson"}]

\* the enrichment variant is not running
EnrichIdle ==
    /\ epc = "off"
    /\ body = [url |-> TRUE, cookies |-> "array"]
    /\ sent = <<>>
    /\ ebrowser = "none"
    /\ profileCards = -1
    /\ cardIdx = 0
    /\ profileLink = 0
    /\ results = <<>>
    /\ openPages = 0
    /\ efaults = {}
    /\ entityLog = <<>>

\* ------------------------------------------------------------------ Init
Init ==
    /\ EnrichIdle
    /\ pc = "request"
    /\ req \in Requests
    /\ events = <<>>
    /\ ended = 0
    /\ browser = "none"
    /\ currentPage = 1
    /\ currentUrl = 0
    /\ finalHtml = <<>>
    /\ nextButtons = -1
    /\ promises = <<>>
    /\ all = "none"
    /\ allResults = <<>>
    /\ faults = {}
    /\ loads = 0
    /\ batchSizes = <<>>

\* ------------------------------------------------- shared continuations
\* server.js:228-233  an exception leaves scrapeProfiles (or the try block):
\* the handler's catch emits one error event and the stream is ended.
HandlerCatch(evs, what) ==
    /\ events' = evs \o <<Msg("error", what)>>
    /\ ended' = ended + 1
    /\ pc' = "done"

\* server.js:112-128  the code after the pagination loop up to the await of
\* Promise.all: one testOpenAIBatch call (one fetch) per element of finalHtml.
StartExtraction(evs, html) ==
    /\ events' = evs \o
          <<Msg("openai-extracting", "Starting parallel processing of pages")>>
    /\ promises' = [i \in 1..Len(html) |->
                      [state |-> "pending", value |-> <<>>, reason |-> ""]]
    /\ all' = IF Len(html) = 0 THEN "fulfilled" ELSE "pending"
    /\ pc' = "awaitAll"

\* server.js:101-104  the catch around the advance to the next page, entered
\* when the engine call `what` fails
AdvanceCatch(what) ==
    /\ faults' = faults \cup {what}
    /\ StartExtraction(
          events \o <<Msg("error", "Error navigating to next page")>>, finalHtml)
    /\ UNCHANGED <<req, ended, browser, currentPage, currentUrl, finalHtml,
                   nextButtons, allResults, loads, batchSizes>>

\* AdvanceAllowed with the bound test off by one
AdvanceAllowedOffByOne(cp) == cp <= maxPages

\* server.js:84  if (currentPage < maxPages)
AdvanceAllowed(cp) == cp < maxPages

\* --------------------------------------------------------------- actions
\* Request without the return of line 219: after the error event and
\* res.end() the handler goes on into the scrape
RequestNoReturn ==
    /\ pc = "request"
    /\ IF ~req.url
         THEN /\ events' = events \o
                    <<Msg("error", "URL is required"),
                      Msg("browser-setup", "Scraping started"),
                      Msg("browser-setup", "Launching browser")>>
              /\ ended' = ended + 1
              /\ pc' = "launch"
         ELSE IF ~req.fieldsOk \/ req.cookies = "badJson"
         THEN HandlerCatch(events, "SyntaxError")
         ELSE /\ events' = events \o
                    <<Msg("browser-setup", "Scraping started"),
                      Msg("browser-setup", "Launching browser")>>
              /\ ended' = ended
              /\ pc' = "launch"
    /\ UNCHANGED <<req, browser, currentPage, currentUrl, finalHtml, nextButtons,
                   promises, all, allResults, faults, loads, batchSizes>>

\* Request with the url test after the "Scraping started" event
RequestValidatesLate ==
    /\ pc = "request"
    /\ IF ~req.url
         THEN /\ events' = events \o
                    <<Msg("browser-setup", "Scraping started"),
                      Msg("error", "URL is required")>>
              /\ ended' = ended + 1
              /\ pc' = "done"
         ELSE IF ~req.fieldsOk \/ req.cookies = "badJson"
         THEN HandlerCatch(events, "SyntaxError")
         ELSE /\ events' = events \o
                    <<Msg("browser-setup", "Scraping started"),
                      Msg("browser-setup", "Launching browser")>>
              /\ ended' = ended
              /\ pc' = "launch"
    /\ UNCHANGED <<req, browser, currentPage, currentUrl, finalHtml, nextButtons,
                   promises, all, allResults, faults, loads, batchSizes>>

\* server.js:204-225 and 33: the handler up to the first await (the launch)
Request ==
    /\ pc = "request"
    /\ IF ~req.url
         THEN /\ events' = events \o <<Msg("error", "URL is required")>>
              /\ ended' = ended + 1
              /\ pc' = "done"
         ELSE IF ~req.fieldsOk \/ req.cookies = "badJson"
         THEN HandlerCatch(events, "SyntaxError")
         ELSE /\ events' = events \o
                    <<Msg("browser-setup", "Scraping started"),
                      Msg("browser-setup", "Launching browser")>>
              /\ ended' = ended
              /\ pc' = "launch"
    /\ UNCHANGED <<req, browser, currentPage, currentUrl, finalHtml, nextButtons,
                   promises, all, allResults, faults, loads, batchSizes>>

\* server.js:34-40  playwright.chromium.launch
Launch ==
    /\ pc = "launch"
    /\ \/ /\ browser' = "open"
          /\ events' = events \o
                <<Msg("browser-setup", "Browser launched"),
                  Msg("browser-setup", "Creating browser context")>>
          /\ pc' = "newContext"
          /\ UNCHANGED <<ended, faults>>
       \/ /\ HandlerCatch(events, "launch failed")
          /\ faults' = faults \cup {"launch"}
          /\ browser' = browser
    /\ UNCHANGED <<req, currentPage, currentUrl, finalHtml, nextButtons,
                   promises, all, allResults, loads, batchSizes>>

\* server.js:41-53  browser.newContext, then the cookie test of line 48
NewContext ==
    /\ pc = "newContext"
    /\ \/ LET evs == events \o
                <<Msg("browser-setup", "Browser context created"),
                  Msg("browser-setup", "Adding cookies")>>
          IN  /\ IF req.cookies = "array"
                   THEN /\ events' = evs
                        /\ pc' = "addCookies"
                   ELSE /\ events' = evs \o
                              <<Msg("browser-setup", "Cookies added"),
                                Msg("browser-setup", "Opening new page")>>
                        /\ pc' = "newPage"
              /\ UNCHANGED <<ended, faults>>
       \/ /\ HandlerCatch(events, "newContext failed")
          /\ faults' = faults \cup {"newContext"}
    /\ UNCHANGED <<req, browser, currentPage, currentUrl, finalHtml, nextButtons,
                   promises, all, allResults, loads, batchSizes>>

\* server.js:49-53  context.addCookies
AddCookies ==
    /\ pc = "addCookies"
    /\ \/ /\ events' = events \o
                <<Msg("browser-setup", "Cookies added"),
                  Msg("browser-setup", "Opening new page")>>
          /\ pc' = "newPage"
          /\ UNCHANGED <<ended, faults>>
       \/ /\ HandlerCatch(events, "addCookies failed")
          /\ faults' = faults \cup {"addCookies"}
    /\ UNCHANGED <<req, browser, currentPage, currentUrl, finalHtml, nextButtons,
                   promises, all, allResults, loads, batchSizes>>

\* server.js:54-65  context.newPage, the loop variables, the first loop test
\* and the first event of the loop body
NewPage ==
    /\ pc = "newPage"
    /\ \/ /\ events' = events \o
                <<Msg("browser-setup", "New page opened"),
                  Msg("playwright-scraping", "Loading LinkedIn page")>>
          /\ pc' = "goto"
          /\ allResults' = <<>>
          /\ currentPage' = 1
          /\ currentUrl' = 0
          /\ finalHtml' = <<>>
          /\ UNCHANGED <<ended, faults>>
       \/ /\ HandlerCatch(events, "newPage failed")
          /\ faults' = faults \cup {"newPage"}
          /\ UNCHANGED <<allResults, currentPage, currentUrl, finalHtml>>
    /\ UNCHANGED <<req, browser, nextButtons, promises, all, loads, batchSizes>>

\* Goto with the load inside the try of the advance: a failed load is
\* caught, ends pagination and the pipeline goes on to extraction
GotoCaught ==
    /\ pc = "goto"
    /\ loads' = loads + 1
    /\ \/ /\ events' = events \o
                <<Msg("playwright-scraping", "LinkedIn page loaded"),
                  Msg("playwright-scraping", "Waiting for search result cards")>>
          /\ pc' = "waitForSelector"
          /\ UNCHANGED <<ended, faults, promises, all>>
       \/ /\ faults' = faults \cup {"goto"}
          /\ StartExtraction(
                events \o <<Msg("error", "goto failed")>>, finalHtml)
          /\ UNCHANGED ended
    /\ UNCHANGED <<req, browser, currentPage, currentUrl, finalHtml, nextButtons,
                   allResults, batchSizes>>

\* server.js:66-69  page.goto(currentUrl)
Goto ==
    /\ pc = "goto"
    /\ loads' = loads + 1
    /\ \/ /\ events' = events \o
                <<Msg("playwright-scraping", "LinkedIn page loaded"),
                  Msg("playwright-scraping", "Waiting for search result cards")>>
          /\ pc' = "waitForSelector"
          /\ UNCHANGED <<ended, faults>>
       \/ /\ HandlerCatch(events, "goto failed")
          /\ faults' = faults \cup {"goto"}
    /\ UNCHANGED <<req, browser, currentPage, currentUrl, finalHtml, nextButtons,
                   promises, all, allResults, batchSizes>>

\* server.js:70-74  page.waitForSelector
WaitForSelector ==
    /\ pc = "waitForSelector"
    /\ \/ /\ events' = events \o
                <<Msg("playwright-scraping", "Search result cards found"),
                  Ev("playwright-scraping", "Extracting profile cards on",
                     currentPage, <<>>)>>
          /\ pc' = "evalCards"
          /\ UNCHANGED <<ended, faults>>
       \/ /\ HandlerCatch(events, "waitForSelector timeout")
          /\ faults' = faults \cup {"waitForSelector"}
    /\ UNCHANGED <<req, browser, currentPage, currentUrl, finalHtml, nextButtons,
                   promises, all, allResults, loads, batchSizes>>

\* server.js:75-85 and 105-108  page.$$eval, finalHtml.push(...cardsHtml),
\* then the test of the iteration bound
EvalCards ==
    /\ pc = "evalCards"
    /\ \/ \E k \in 0..MaxCards :
            LET cardsHtml == [j \in 1..k |-> <<currentPage, j>>]
                html == finalHtml \o cardsHtml
                evs == events \o
                    <<Ev("playwright-scraping", "Extracted profile cards on page",
                         currentPage, <<>>)>>
            IN  /\ finalHtml' = html
                /\ batchSizes' = Append(batchSizes, k)
                /\ UNCHANGED <<ended, faults>>
                /\ IF AdvanceAllowed(currentPage)
                     THEN /\ events' = evs \o
                                <<Msg("playwright-scraping",
                                      "Attempting to navigate to next page")>>
                          /\ pc' = "scroll"
                          /\ UNCHANGED <<promises, all>>
                     ELSE StartExtraction(
                            evs \o <<Msg("playwright-scraping",
                                         "Pagination limit reached.")>>, html)
       \/ /\ HandlerCatch(events, "$$eval failed")
          /\ faults' = faults \cup {"$$eval"}
          /\ UNCHANGED <<finalHtml, batchSizes, promises, all>>
    /\ UNCHANGED <<req, browser, currentPage, currentUrl, nextButtons,
                   allResults, loads>>

\* server.js:87  page.evaluate(scrollTo)
Scroll ==
    /\ pc = "scroll"
    /\ \/ /\ pc' = "settle"
          /\ UNCHANGED <<req, events, ended, browser, currentPage, currentUrl,
                         finalHtml, nextButtons, promises, all, allResults,
                         faults, loads, batchSizes>>
       \/ AdvanceCatch("scroll")

\* server.js:88  page.waitForTimeout(5000)
Settle ==
    /\ pc = "settle"
    /\ \/ /\ pc' = "queryNext"
          /\ UNCHANGED <<req, events, ended, browser, currentPage, currentUrl,
                         finalHtml, nextButtons, promises, all, allResults,
                         faults, loads, batchSizes>>
       \/ AdvanceCatch("waitForTimeout")

\* QueryNext without the test of nextButtons.length: with no Next control
\* the click on nextButtons[-1] throws into the catch of the advance
QueryNextNoLengthTest ==
    /\ pc = "queryNext"
    /\ \/ \E n \in 0..1 :
            /\ nextButtons' = n
            /\ IF n > 0
                 THEN /\ pc' = "click"
                      /\ UNCHANGED <<events, promises, all>>
                 ELSE StartExtraction(
                        events \o <<Msg("error", "Error navigating to next page")>>,
                        finalHtml)
            /\ UNCHANGED <<req, ended, browser, currentPage, currentUrl,
                           finalHtml, allResults, faults, loads, batchSizes>>
       \/ AdvanceCatch("$$")

\* server.js:89-90 and 97-100  page.$$('button[aria-label="Next"]') and the
\* test of nextButtons.length
QueryNext ==
    /\ pc = "queryNext"
    /\ \/ \E n \in 0..1 :
            /\ nextButtons' = n
            /\ IF n > 0
                 THEN /\ pc' = "click"
                      /\ UNCHANGED <<events, promises, all>>
                 ELSE StartExtraction(
                        events \o <<Msg("playwright-scraping",
                            "No next button found. Ending pagination.")>>,
                        finalHtml)
            /\ UNCHANGED <<req, ended, browser, currentPage, currentUrl,
                           finalHtml, allResults, faults, loads, batchSizes>>
       \/ AdvanceCatch("$$")

\* Click outside the try of the advance: a failed click leaves scrapeProfiles
ClickUncaught ==
    /\ pc = "click"
    /\ \/ /\ events' = events \o
                <<Msg("playwright-scraping",
                      "Clicked next button. Waiting for navigation")>>
          /\ pc' = "waitForNavigation"
          /\ UNCHANGED <<ended, promises, all, faults>>
       \/ /\ HandlerCatch(events, "click failed")
          /\ faults' = faults \cup {"click"}
          /\ UNCHANGED <<promises, all>>
    /\ UNCHANGED <<req, browser, currentPage, currentUrl, finalHtml, nextButtons,
                   allResults, loads, batchSizes>>

\* server.js:91-92  nextButtons[nextButtons.length - 1].click()
Click ==
    /\ pc = "click"
    /\ \/ /\ events' = events \o
                <<Msg("playwright-scraping",
                      "Clicked next button. Waiting for navigation")>>
          /\ pc' = "waitForNavigation"
          /\ UNCHANGED <<req, ended, browser, currentPage, currentUrl,
                         finalHtml, nextButtons, promises, all, allResults,
                         faults, loads, batchSizes>>
       \/ AdvanceCatch("click")

\* WaitForNavigation with the "Loading LinkedIn page" event emitted once
\* before the loop instead of at the top of every iteration
WaitForNavigationNoLoadingEvent ==
    /\ pc = "waitForNavigation"
    /\ \/ LET evs == events \o
                <<Msg("playwright-scraping", "Browser navigated to next page")>>
          IN  /\ currentUrl' = currentUrl + 1
              /\ currentPage' = currentPage + 1
              /\ IF currentPage + 1 <= maxPages
                   THEN /\ events' = evs
                        /\ pc' = "goto"
                        /\ UNCHANGED <<promises, all>>
                   ELSE StartExtraction(evs, finalHtml)
              /\ UNCHANGED <<req, ended, browser, finalHtml, nextButtons,
                             allResults, faults, loads, batchSizes>>
       \/ AdvanceCatch("waitForNavigation")

\* server.js:93-96 and 64-65  page.waitForNavigation, currentPage++, the
\* loop test and the first event of the next iteration
WaitForNavigation ==
    /\ pc = "waitForNavigation"
    /\ \/ LET evs == events \o
                <<Msg("playwright-scraping", "Browser navigated to next page")>>
          IN  /\ currentUrl' = currentUrl + 1
              /\ currentPage' = currentPage + 1
              /\ IF currentPage + 1 <= maxPages
                   THEN /\ events' = evs \o
                              <<Msg("playwright-scraping", "Loading LinkedIn page")>>
                        /\ pc' = "goto"
                        /\ UNCHANGED <<promises, all>>
                   ELSE StartExtraction(evs, finalHtml)
              /\ UNCHANGED <<req, ended, browser, finalHtml, nextButtons,
                             allResults, faults, loads, batchSizes>>
       \/ AdvanceCatch("waitForNavigation")

\* ------------------------------------------------- extraction service
\* What one request to the extraction service can come back with
\* (server.js:149-185): the fetch or response.json() rejects, the body holds
\* an error object, or choices[0].message.content is a text: a JSON array of
\* n records or not JSON at all, bare or wrapped in a ```json code fence.
Contents == [fenced : BOOLEAN, valid : BOOLEAN, n : 0..MaxRecords]
Responses ==
    {[kind |-> "reject", content |-> [fenced |-> FALSE, valid |-> FALSE, n |-> 0]],
     [kind |-> "error", content |-> [fenced |-> FALSE, valid |-> FALSE, n |-> 0]]}
    \cup [kind : {"content"}, content : Contents]

\* a structured record answered by the service for request i, position j
Structured(i, j) == [error |-> "", rawHtml |-> <<>>, src |-> <<i, j>>]
\* server.js:134-137  the degraded record of one fragment
Degraded(html) == [error |-> "OpenAI processing failed", rawHtml |-> html, src |-> <<>>]

\* JSON.parse on the content: only bare, valid JSON parses
JSONParse(c, i) ==
    IF c.valid /\ ~c.fenced
    THEN [ok |-> TRUE, value |-> [j \in 1..c.n |-> Structured(i, j)]]
    ELSE [ok |-> FALSE, value |-> <<>>]

\* server.js:183  content.replace(/^```json\n?|\n?```$/g, '')
CleanedContent(c) == [c EXCEPT !.fenced = FALSE]

\* server.js:148-186  the promise testOpenAIBatch(finalHtml[i]) settles to
TestOpenAIBatch(resp, i) ==
    IF resp.kind = "reject"
    THEN [state |-> "rejected", value |-> <<>>, reason |-> "fetch failed"]
    ELSE IF resp.kind = "error"
    THEN [state |-> "rejected", value |-> <<>>, reason |-> "OpenAI API Error"]
    ELSE LET first == JSONParse(resp.content, i)
             second == JSONParse(CleanedContent(resp.content), i)
         IN  IF first.ok
             THEN [state |-> "fulfilled", value |-> first.value, reason |-> ""]
             ELSE IF second.ok
             THEN [state |-> "fulfilled", value |-> second.value, reason |-> ""]
             ELSE [state |-> "rejected", value |-> <<>>, reason |-> "SyntaxError"]

\* Promise.all (server.js:128): rejected by the first rejection, fulfilled
\* once every input is fulfilled; a settled promise never changes.
PromiseAll(a, ps) ==
    IF a # "pending" THEN a
    ELSE IF \E i \in DOMAIN ps : ps[i].state = "rejected" THEN "rejected"
    ELSE IF \A i \in DOMAIN ps : ps[i].state = "fulfilled" THEN "fulfilled"
    ELSE "pending"

\* AggregateResults with per-request isolation: only a request that did not
\* succeed is degraded (what Promise.allSettled would give)
AggregatePerRequest(a, ps, html) ==
    Flat([i \in 1..Len(ps) |->
            IF ps[i].state = "fulfilled" THEN ps[i].value ELSE <<Degraded(html[i])>>])

\* AggregateResults with the fallback of the catch run on every path
AggregateAlwaysDegraded(a, ps, html) ==
    [k \in 1..Len(html) |-> Degraded(html[k])]

\* AggregateResults with the answers joined in the reverse of request order
\* (as when each answer is pushed when it arrives and the last request
\* answers first)
AggregateReversed(a, ps, html) ==
    IF a = "fulfilled"
    THEN Flat([i \in 1..Len(ps) |-> ps[Len(ps) + 1 - i].value])
    ELSE [k \in 1..Len(html) |-> Degraded(html[k])]

\* server.js:128-138  allResults after the await: the flattened answers, or
\* in the catch one degraded record per element of finalHtml
AggregateResults(a, ps, html) ==
    IF a = "fulfilled"
    THEN Flat([i \in 1..Len(ps) |-> ps[i].value])
    ELSE [k \in 1..Len(html) |-> Degraded(html[k])]

\* server.js:116-117  what request i carries: the i-th element of finalHtml
RequestPayload(i) == finalHtml[i]

\* server.js:117-125  request i settles; its then/catch handler emits the
\* per-request event and Promise.all sees the outcome
FetchSettle(i) ==
    /\ i \in DOMAIN promises
    /\ promises[i].state = "pending"
    /\ \E resp \in Responses :
         LET p == TestOpenAIBatch(resp, i)
         IN  /\ promises' = [promises EXCEPT ![i] = p]
             /\ events' = events \o
                  <<IF p.state = "fulfilled"
                    THEN Ev("openai-extracting", "Successfully processed profile", i, <<>>)
                    ELSE Ev("error", "Failed to process profile", i, <<>>)>>
             /\ all' = PromiseAll(all, promises')
    /\ UNCHANGED <<pc, req, ended, browser, currentPage, currentUrl, finalHtml,
                   nextButtons, allResults, faults, loads, batchSizes>>

\* AwaitAll without the try/catch of lines 112-138: a rejection of
\* Promise.all leaves scrapeProfiles
AwaitAllUncaught ==
    /\ pc = "awaitAll"
    /\ all \in {"fulfilled", "rejected"}
    /\ IF all = "fulfilled"
         THEN /\ allResults' = AggregateResults(all, promises, finalHtml)
              /\ events' = events \o
                    <<Msg("openai-extracting", "All pages processed successfully."),
                      Msg("finishing", "Closing browser")>>
              /\ pc' = "close"
              /\ ended' = ended
         ELSE /\ HandlerCatch(events, "OpenAI API Error")
              /\ allResults' = allResults
    /\ UNCHANGED <<req, browser, currentPage, currentUrl, finalHtml,
                   nextButtons, promises, all, faults, loads, batchSizes>>

\* server.js:128-141  the await of Promise.all resumes: success or catch,
\* then the start of the finalizing group
AwaitAll ==
    /\ pc = "awaitAll"
    /\ all \in {"fulfilled", "rejected"}
    /\ allResults' = AggregateResults(all, promises, finalHtml)
    /\ events' = events \o
          <<IF all = "fulfilled"
            THEN Msg("openai-extracting", "All pages processed successfully.")
            ELSE Msg("error", "OpenAI error processing pages"),
            Msg("finishing", "Closing browser")>>
    /\ pc' = "close"
    /\ UNCHANGED <<req, ended, browser, currentPage, currentUrl, finalHtml,
                   nextButtons, promises, all, faults, loads, batchSizes>>

\* server.js:142-145 and 226-233  browser.close() resolves, scrapeProfiles
\* returns, the handler sends the result and ends the stream.  (Playwright's
\* Browser.close resolves also when the browser is already gone, so it has
\* no failing outcome here.)
Close ==
    /\ pc = "close"
    /\ browser' = "closed"
    /\ events' = events \o
          <<Msg("finishing", "Browser closed"),
            Msg("finishing", "Scraping finished"),
            Msg("finishing", "wrapup!"),
            Ev("result", "", 0, allResults)>>
    /\ ended' = ended + 1
    /\ pc' = "done"
    /\ UNCHANGED <<req, currentPage, currentUrl, finalHtml, nextButtons,
                   promises, all, allResults, faults, loads, batchSizes>>

\* ------------------------------------------------------- specification
Next ==
    \/ Request /\ UNCHANGED enrichVars
    \/ Launch /\ UNCHANGED enrichVars
    \/ NewContext /\ UNCHANGED enrichVars
    \/ AddCookies /\ UNCHANGED enrichVars
    \/ NewPage /\ UNCHANGED enrichVars
    \/ Goto /\ UNCHANGED enrichVars
    \/ WaitForSelector /\ UNCHANGED enrichVars
    \/ EvalCards /\ UNCHANGED enrichVars
    \/ Scroll /\ UNCHANGED enrichVars
    \/ Settle /\ UNCHANGED enrichVars
    \/ QueryNext /\ UNCHANGED enrichVars
    \/ Click /\ UNCHANGED enrichVars
    \/ WaitForNavigation /\ UNCHANGED enrichVars
    \/ \E i \in 1..(maxPages * (MaxCards + 1)) : FetchSettle(i) /\ UNCHANGED enrichVars
    \/ AwaitAll /\ UNCHANGED enrichVars
    \/ Close /\ UNCHANGED enrichVars

Spec == Init /\ [][Next]_vars

\* Every await settles (each carries a timeout) and the event loop runs
\* every continuation that is ready.
FairSpec == Spec /\ WF_vars(Next)

\* ------------------------------------------- enrichment variant: setup
\* the bodies a POST /scrape request can carry (part_000:182)
Bodies == [url : BOOLEAN, cookies : {"array", "notArray"}]

\* the streaming variant is not running
StreamIdle ==
    /\ pc = "off"
    /\ req = [url |-> TRUE, fieldsOk |-> TRUE, cookies |-> "array"]
    /\ events = <<>>
    /\ ended = 0
    /\ browser = "none"
    /\ currentPage = 1
    /\ currentUrl = 0
    /\ finalHtml = <<>>
    /\ nextButtons = -1
    /\ promises = <<>>
    /\ all = "none"
    /\ allResults = <<>>
    /\ faults = {}
    /\ loads = 0
    /\ batchSizes = <<>>

EnrichInit ==
    /\ StreamIdle
    /\ epc = "request"
    /\ body \in Bodies
    /\ sent = <<>>
    /\ ebrowser = "none"
    /\ profileCards = -1
    /\ cardIdx = 0
    /\ profileLink = 0
    /\ results = <<>>
    /\ openPages = 0
    /\ efaults = {}
    /\ entityLog = <<>>

\* one HTTP response: res.status(code).json(data)
Response(code, data) == [status |-> code, data |-> data]

\* part_000:189-192  an exception leaves scrapeProfiles when the engine call
\* `what` fails: the handler's catch answers 500
EnrichCatch(what) ==
    /\ efaults' = efaults \cup {what}
    /\ sent' = Append(sent, Response(500, <<>>))
    /\ epc' = "done"

\* EnrichRequest without the return of line 184: after the 400 the handler
\* goes on into the scrape
EnrichRequestNoReturn ==
    /\ epc = "request"
    /\ sent' = IF ~body.url THEN Append(sent, Response(400, <<>>)) ELSE sent
    /\ epc' = "launch"
    /\ UNCHANGED <<body, ebrowser, profileCards, cardIdx, profileLink, results,
                   openPages, efaults, entityLog>>
    /\ UNCHANGED streamVars

\* part_000:180-187 and 98  the handler up to the first await (the launch)
EnrichRequest ==
    /\ epc = "request"
    /\ IF ~body.url
         THEN /\ sent' = Append(sent, Response(400, <<>>))
              /\ epc' = "done"
         ELSE /\ sent' = sent
              /\ epc' = "launch"
    /\ UNCHANGED <<body, ebrowser, profileCards, cardIdx, profileLink, results,
                   openPages, efaults, entityLog>>
    /\ UNCHANGED streamVars

\* part_000:98-99  playwright.chromium.launch
EnrichLaunch ==
    /\ epc = "launch"
    /\ \/ /\ ebrowser' = "open"
          /\ epc' = "newContext"
          /\ UNCHANGED <<sent, efaults>>
       \/ /\ EnrichCatch("launch")
          /\ ebrowser' = ebrowser
    /\ UNCHANGED <<body, profileCards, cardIdx, profileLink, results,
                   openPages, entityLog>>
    /\ UNCHANGED streamVars

\* part_000:99-107  browser.newContext, then the cookie test of line 102
EnrichNewContext ==
    /\ epc = "newContext"
    /\ \/ /\ epc' = IF body.cookies = "array" THEN "addCookies" ELSE "newPage"
          /\ UNCHANGED <<sent, efaults>>
       \/ EnrichCatch("newContext")
    /\ UNCHANGED <<body, ebrowser, profileCards, cardIdx, profileLink, results,
                   openPages, entityLog>>
    /\ UNCHANGED streamVars

\* part_000:104  context.addCookies
EnrichAddCookies ==
    /\ epc = "addCookies"
    /\ \/ /\ epc' = "newPage"
          /\ UNCHANGED <<sent, efaults>>
       \/ EnrichCatch("addCookies")
    /\ UNCHANGED <<body, ebrowser, profileCards, cardIdx, profileLink, results,
                   openPages, entityLog>>
    /\ UNCHANGED streamVars

\* part_000:107  context.newPage
EnrichNewPage ==
    /\ epc = "newPage"
    /\ \/ /\ epc' = "goto"
          /\ UNCHANGED <<sent, efaults>>
       \/ EnrichCatch("newPage")
    /\ UNCHANGED <<body, ebrowser, profileCards, cardIdx, profileLink, results,
                   openPages, entityLog>>
    /\ UNCHANGED streamVars

\* part_000:110  page.goto(url)
EnrichGoto ==
    /\ epc = "goto"
    /\ \/ /\ epc' = "waitForSelector"
          /\ UNCHANGED <<sent, efaults>>
       \/ EnrichCatch("goto")
    /\ UNCHANGED <<body, ebrowser, profileCards, cardIdx, profileLink, results,
                   openPages, entityLog>>
    /\ UNCHANGED streamVars

\* part_000:114  page.waitForSelector
EnrichWaitForSelector ==
    /\ epc = "waitForSelector"
    /\ \/ /\ epc' = "queryCards"
          /\ UNCHANGED <<sent, efaults>>
       \/ EnrichCatch("waitForSelector")
    /\ UNCHANGED <<body, ebrowser, profileCards, cardIdx, profileLink, results,
                   openPages, entityLog>>
    /\ UNCHANGED streamVars

\* part_000:123  the loop test i < profileCards.length, with i = idx
LoopTarget(idx, n) == IF idx < n THEN "refetch" ELSE "closeBrowser"

\* part_000:117-123  page.$$ for the cards, results = [], i = 0, loop test
EnrichQueryCards ==
    /\ epc = "queryCards"
    /\ \/ \E n \in 0..MaxProfileCards :
            /\ profileCards' = n
            /\ results' = <<>>
            /\ cardIdx' = 0
            /\ epc' = LoopTarget(0, n)
            /\ UNCHANGED <<sent, efaults>>
       \/ /\ EnrichCatch("$$")
          /\ UNCHANGED <<profileCards, results, cardIdx>>
    /\ UNCHANGED <<body, ebrowser, profileLink, openPages, entityLog>>
    /\ UNCHANGED streamVars

\* --------------------------------------- enrichment variant: entities
\* part_000:161  the record of an entity whose detail page was read
NormalRecord(link, company) ==
    [profile |-> link, currentCompany |-> company, error |-> "absent"]
\* part_000:136 and 164  the record of an entity that failed
ErrorRecord(link, msg) ==
    [profile |-> link, currentCompany |-> "absent", error |-> msg]

\* the aria-label texts of a "Current company:" button: with or without the
\* ". Click to skip" part that the pattern of line 154 needs
Labels == [value : {"WisdomAI"}, suffix : BOOLEAN]
\* part_000:149-157  ariaLabel.match(/Current company:\s*(.*?)\.\s*Click to skip/)
LabelMatch(l) == IF l.suffix THEN l.value ELSE "null"

\* part_000:123  i++ and the loop test
NextEntity ==
    /\ cardIdx' = cardIdx + 1
    /\ epc' = LoopTarget(cardIdx + 1, profileCards)

Logged(env) == entityLog' = Append(entityLog, [card |-> cardIdx + 1, env |-> env])

\* part_000:162-165  the catch of the entity's try, entered when the engine
\* answers `env`; the page is closed after it (line 167)
EntityCatch(env) ==
    /\ results' = Append(results, ErrorRecord(profileLink, "Error"))
    /\ Logged(env)
    /\ epc' = "closeProfile"

\* part_000:127-128  the card is fetched again; if (!card) continue
EnrichRefetchCard ==
    /\ epc = "refetch"
    /\ \/ /\ epc' = "link"
          /\ UNCHANGED <<cardIdx, entityLog, sent, efaults>>
       \/ /\ NextEntity
          /\ Logged("cardGone")
          /\ UNCHANGED <<sent, efaults>>
       \/ /\ EnrichCatch("refetch")
          /\ UNCHANGED <<cardIdx, entityLog>>
    /\ UNCHANGED <<body, ebrowser, profileCards, profileLink, results, openPages>>
    /\ UNCHANGED streamVars

\* part_000:131-138  card.$eval for the link
EnrichLink ==
    /\ epc = "link"
    /\ \/ /\ profileLink' = cardIdx + 1
          /\ epc' = "openProfile"
          /\ UNCHANGED <<cardIdx, results, entityLog>>
       \/ /\ profileLink' = 0
          /\ results' = Append(results, ErrorRecord(0, "Could not extract link"))
          /\ Logged("noLink")
          /\ NextEntity
    /\ UNCHANGED <<body, sent, ebrowser, profileCards, openPages, efaults>>
    /\ UNCHANGED streamVars

\* part_000:141  context.newPage for the profile
EnrichOpenProfile ==
    /\ epc = "openProfile"
    /\ \/ /\ openPages' = openPages + 1
          /\ epc' = "profileGoto"
          /\ UNCHANGED <<sent, efaults>>
       \/ /\ EnrichCatch("profile newPage")
          /\ openPages' = openPages
    /\ UNCHANGED <<body, ebrowser, profileCards, cardIdx, profileLink, results,
                   entityLog>>
    /\ UNCHANGED streamVars

\* EnrichProfileGoto with profilePage.close() as the last statement of the
\* try block: a failed navigation skips it
EnrichProfileGotoNoClose ==
    /\ epc = "profileGoto"
    /\ \/ /\ epc' = "waitLabel"
          /\ UNCHANGED <<results, entityLog, cardIdx>>
       \/ /\ results' = Append(results, ErrorRecord(profileLink, "Error"))
          /\ Logged("navFail")
          /\ NextEntity
    /\ UNCHANGED <<body, sent, ebrowser, profileCards, profileLink, openPages,
                   efaults>>
    /\ UNCHANGED streamVars

\* part_000:143-144  profilePage.goto(profileLink)
EnrichProfileGoto ==
    /\ epc = "profileGoto"
    /\ \/ /\ epc' = "waitLabel"
          /\ UNCHANGED <<results, entityLog>>
       \/ EntityCatch("navFail")
    /\ UNCHANGED <<body, sent, ebrowser, profileCards, cardIdx, profileLink,
                   openPages, efaults>>
    /\ UNCHANGED streamVars

\* part_000:147  profilePage.waitForSelector for the labelled button
EnrichWaitLabel ==
    /\ epc = "waitLabel"
    /\ \/ /\ epc' = "queryButton"
          /\ UNCHANGED <<results, entityLog>>
       \/ EntityCatch("waitTimeout")
    /\ UNCHANGED <<body, sent, ebrowser, profileCards, cardIdx, profileLink,
                   openPages, efaults>>
    /\ UNCHANGED streamVars

\* part_000:148-151 and 160-161  profilePage.$ for the button; with no button
\* currentCompany stays null and the record is pushed
EnrichQueryButton ==
    /\ epc = "queryButton"
    /\ \/ /\ epc' = "getLabel"
          /\ UNCHANGED <<results, entityLog>>
       \/ /\ results' = Append(results, NormalRecord(profileLink, "null"))
          /\ Logged("noButton")
          /\ epc' = "closeProfile"
       \/ EntityCatch("queryFail")
    /\ UNCHANGED <<body, sent, ebrowser, profileCards, cardIdx, profileLink,
                   openPages, efaults>>
    /\ UNCHANGED streamVars

\* part_000:152-161  button.getAttribute, the pattern, results.push
EnrichGetLabel ==
    /\ epc = "getLabel"
    /\ \/ \E l \in Labels :
            /\ results' = Append(results, NormalRecord(profileLink, LabelMatch(l)))
            /\ Logged(IF l.suffix THEN "ok" ELSE "noMatch")
            /\ epc' = "closeProfile"
       \/ EntityCatch("labelFail")
    /\ UNCHANGED <<body, sent, ebrowser, profileCards, cardIdx, profileLink,
                   openPages, efaults>>
    /\ UNCHANGED streamVars

\* part_000:167 and 123  profilePage.close(), then the next entity.
\* (Page.close resolves also when the page is already gone.)
EnrichCloseProfile ==
    /\ epc = "closeProfile"
    /\ openPages' = openPages - 1
    /\ NextEntity
    /\ UNCHANGED <<body, sent, ebrowser, profileCards, profileLink, results,
                   efaults, entityLog>>
    /\ UNCHANGED streamVars

\* part_000:170-171 and 188  browser.close(), return { results }, res.json
EnrichCloseBrowser ==
    /\ epc = "closeBrowser"
    /\ ebrowser' = "closed"
    /\ sent' = Append(sent, Response(200, results))
    /\ epc' = "done"
    /\ UNCHANGED <<body, profileCards, cardIdx, profileLink, results, openPages,
                   efaults, entityLog>>
    /\ UNCHANGED streamVars

EnrichNext ==
    \/ EnrichRequest
    \/ EnrichLaunch
    \/ EnrichNewContext
    \/ EnrichAddCookies
    \/ EnrichNewPage
    \/ EnrichGoto
    \/ EnrichWaitForSelector
    \/ EnrichQueryCards
    \/ EnrichRefetchCard
    \/ EnrichLink
    \/ EnrichOpenProfile
    \/ EnrichProfileGoto
    \/ EnrichWaitLabel
    \/ EnrichQueryButton
    \/ EnrichGetLabel
    \/ EnrichCloseProfile
    \/ EnrichCloseBrowser

\* the enrichment variant alone
EnrichSpec == EnrichInit /\ [][EnrichNext]_vars
\* every await settles (each carries a timeout)
EnrichFairSpec == EnrichSpec /\ WF_vars(EnrichNext)

\* one request to either variant
BothNext == Next \/ EnrichNext
BothInit == Init \/ EnrichInit
BothSpec == BothInit /\ [][BothNext]_vars

\* ------------------------------------------------ vocabulary of the claims
Has(e, m) == \E i \in DOMAIN events : events[i].event = e /\ events[i].message = m
ResultEvents == {i \in DOMAIN events : events[i].event = "result"}
\* the error events that do not end the invocation (server.js:102, 123, 133)
SoftErrors ==
    {"Error navigating to next page", "Failed to process profile",
     "OpenAI error processing pages"}
FatalEvents ==
    {i \in DOMAIN events : events[i].event = "error" /\ events[i].message \notin SoftErrors}
Rejected == {i \in DOMAIN promises : promises[i].state = "rejected"}
Fulfilled == {i \in DOMAIN promises : promises[i].state = "fulfilled"}
IsDegraded(r) == r.error = "OpenAI processing failed"
RECURSIVE Sum(_)
Sum(ns) == IF ns = <<>> THEN 0 ELSE Head(ns) + Sum(Tail(ns))
\* the fragments the $$eval calls returned, in order, from the history alone
RECURSIVE Collected(_)
Collected(sizes) ==
    IF sizes = <<>> THEN <<>>
    ELSE Collected(SubSeq(sizes, 1, Len(sizes) - 1))
         \o [j \in 1..sizes[Len(sizes)] |-> <<Len(sizes), j>>]

\* ---------------------------------------------------------------- C1
\* C1: on every exit path of an invocation in which the browser was
\* launched, the browser is closed before the invocation ends.
C1_BrowserClosedOnExit == (pc = "done" /\ browser # "none") => browser = "closed"

\* ---------------------------------------------------------------- C2
\* C2: every delivered result holds exactly as many records as fragments were
\* collected over all pagination iterations, whatever the service answers.
C2_Cardinality ==
    \A i \in ResultEvents : Len(events[i].data) = Sum(batchSizes)

\* ---------------------------------------------------------------- C3
C3_OneFailed ==
    /\ Cardinality(Rejected) = 1
    /\ Cardinality(Fulfilled) = Len(promises) - 1
\* C3: when exactly one extraction request fails and all others succeed,
\* every record of the delivered results is the degraded record of a
\* fragment (error marker and raw fragment), one per fragment in order, and
\* no structured record of a successful request appears.
C3_AllOrNothing ==
    C3_OneFailed =>
      \A i \in ResultEvents :
        /\ Len(events[i].data) = Len(finalHtml)
        /\ \A k \in DOMAIN events[i].data :
             /\ IsDegraded(events[i].data[k])
             /\ events[i].data[k].rawHtml = finalHtml[k]
             /\ events[i].data[k].src = <<>>
C3_Witness ==
    /\ C3_OneFailed
    /\ ResultEvents # {}
    /\ \E i \in Fulfilled : Len(promises[i].value) >= 1
    /\ \E i \in Rejected : promises[i].reason \in {"OpenAI API Error", "SyntaxError"}

\* ---------------------------------------------------------------- C4
C4_AllSucceeded ==
    /\ pc \in {"close", "done"}
    /\ all # "none"
    /\ Fulfilled = DOMAIN promises
\* C4: when every extraction request succeeds, no degraded record is in the
\* results and the invocation-level extraction error event is not emitted.
C4_NoDegradedOnSuccess ==
    C4_AllSucceeded =>
      /\ \A k \in DOMAIN allResults : ~IsDegraded(allResults[k])
      /\ \A i \in ResultEvents :
           \A k \in DOMAIN events[i].data : ~IsDegraded(events[i].data[k])
      /\ ~Has("error", "OpenAI error processing pages")
C4_Witness ==
    /\ C4_AllSucceeded
    /\ Len(promises) >= 1
    /\ \E i \in ResultEvents : Len(events[i].data) >= 1

\* ---------------------------------------------------------------- C5
LoopPcs ==
    {"goto", "waitForSelector", "evalCards", "scroll", "settle", "queryNext",
     "click", "waitForNavigation"}
C5_Bounded ==
    /\ loads <= 2
    /\ Len(batchSizes) <= 2
    /\ currentPage <= 2
\* C5: whatever the browser does, also with a Next control present and
\* clickable on every page, the listing page is loaded at most 2 times, at
\* most 2 batches are collected, the page counter never exceeds 2, and the
\* pagination loop is eventually left.
C5_PaginationBounded == []C5_Bounded /\ []((pc \in LoopPcs) => <>(pc \notin LoopPcs))
C5_Witness ==
    /\ Has("playwright-scraping", "Pagination limit reached.")
    /\ Has("playwright-scraping", "Browser navigated to next page")
    /\ nextButtons = 1
    /\ loads = 2
    /\ Len(batchSizes) = 2
    /\ currentPage = 2

\* ---------------------------------------------------------------- C6
C6_NoNextOnFirst == nextButtons = 0 /\ currentPage = 1
\* C6: when no Next control is found on iteration 1, pagination ends with
\* exactly one batch, no error event is emitted for it, extraction runs over
\* that single batch, and the finished invocation has delivered a result.
C6_NoNextIsSuccess ==
    C6_NoNextOnFirst =>
      /\ Len(batchSizes) = 1
      /\ loads = 1
      /\ pc \in {"awaitAll", "close", "done"}
      /\ finalHtml = Collected(batchSizes)
      /\ Len(promises) = batchSizes[1]
      /\ ~Has("error", "Error navigating to next page")
      /\ FatalEvents = {}
      /\ (pc = "done" => Cardinality(ResultEvents) = 1)
C6_Witness ==
    /\ C6_NoNextOnFirst
    /\ pc = "done"
    /\ batchSizes[1] >= 1
    /\ ResultEvents # {}

\* ---------------------------------------------------------------- C7
C7_FatalFault == faults \cap {"goto", "waitForSelector"} # {}
\* C7: when a page load fails or the wait for listing cards times out, on
\* any iteration, no extraction request is issued afterwards, an error event
\* is emitted and no result event is delivered, even when earlier
\* iterations collected fragments.
C7_FatalShortCircuits ==
    C7_FatalFault =>
      /\ pc = "done"
      /\ promises = <<>>
      /\ all = "none"
      /\ ~Has("openai-extracting", "Starting parallel processing of pages")
      /\ ResultEvents = {}
      /\ \/ ("goto" \in faults /\ Has("error", "goto failed"))
         \/ ("waitForSelector" \in faults /\ Has("error", "waitForSelector timeout"))
      /\ ended = 1
C7_Witness ==
    /\ C7_FatalFault
    /\ currentPage = 2
    /\ Len(finalHtml) >= 1

\* ---------------------------------------------------------------- C8
C8_ResultDelivered ==
    /\ Cardinality(ResultEvents) = 1
    /\ \A i \in ResultEvents :
         /\ events[i].data = allResults
         /\ events[i].data = AggregateResults(all, promises, finalHtml)
C8_ErrorSignalled ==
    /\ ResultEvents = {}
    /\ \E i \in DOMAIN events : events[i].event = "error"
C8_Outcome ==
    /\ ended <= 1
    /\ Cardinality(ResultEvents) <= 1
    /\ (FatalEvents # {} => ResultEvents = {})
    /\ (ended = 1 => pc = "done" /\ (C8_ResultDelivered # C8_ErrorSignalled))
\* C8: every invocation eventually ends the stream, and ends it exactly
\* once; when it has, either exactly one result event carrying the complete
\* results was delivered, or no result event was and an error event was,
\* never both; a result event is never delivered twice nor after a fatal
\* error.
C8_OneTerminalOutcome == <>(ended = 1) /\ []C8_Outcome
C8_Witness ==
    /\ ended = 1
    /\ C8_ResultDelivered
    /\ Has("error", "OpenAI error processing pages")

\* ---------------------------------------------------------------- C9
StepPairs ==
    {<<"Launching browser", "Browser launched">>,
     <<"Creating browser context", "Browser context created">>,
     <<"Adding cookies", "Cookies added">>,
     <<"Opening new page", "New page opened">>,
     <<"Loading LinkedIn page", "LinkedIn page loaded">>,
     <<"Waiting for search result cards", "Search result cards found">>,
     <<"Extracting profile cards on", "Extracted profile cards on page">>,
     <<"Attempting to navigate to next page", "Browser navigated to next page">>,
     <<"Starting parallel processing of pages", "All pages processed successfully.">>,
     <<"Closing browser", "Browser closed">>}
RECURSIVE LastOfStep(_, _, _)
\* the index of the last event of step p before position i (0: there is none)
LastOfStep(evs, p, i) ==
    IF i <= 1 THEN 0
    ELSE IF evs[i - 1].message \in {p[1], p[2]} THEN i - 1
    ELSE LastOfStep(evs, p, i - 1)
StartedBefore(evs, i) ==
    \A p \in StepPairs :
      evs[i].message = p[2] =>
        LET j == LastOfStep(evs, p, i)
        IN  j > 0 /\ evs[j].message = p[1] /\ evs[j].index = evs[i].index
\* C9: the completed event of a logical step is never emitted unless the
\* started event of the same occurrence of the step was emitted before it,
\* and the first event is emitted before the browser launch is awaited.
C9_StartThenComplete ==
    /\ [](pc = "launch" => (events # <<>> /\ browser = "none"))
    /\ [][\A i \in (Len(events) + 1)..Len(events') : StartedBefore(events', i)]_vars
C9_Witness ==
    /\ Has("finishing", "Browser closed")
    /\ Has("openai-extracting", "All pages processed successfully.")
    /\ Has("playwright-scraping", "Browser navigated to next page")

\* --------------------------------------------------------------- C10
AdvanceFaults == {"scroll", "waitForTimeout", "$$", "click", "waitForNavigation"}
C10_AdvanceFault == faults \cap AdvanceFaults # {}
\* C10: when the advance to the next page fails (scroll, settle delay, query,
\* click or navigation after the click), pagination ends and the invocation
\* does not fail: every fragment extracted so far, the current iteration's
\* batch included, is kept and passed to extraction, and the finished
\* invocation has delivered a result.
C10_AdvanceFailureKeepsFragments ==
    C10_AdvanceFault =>
      /\ pc \in {"awaitAll", "close", "done"}
      /\ Len(batchSizes) = currentPage
      /\ finalHtml = Collected(batchSizes)
      /\ Len(promises) = Len(finalHtml)
      /\ Has("error", "Error navigating to next page")
      /\ FatalEvents = {}
      /\ (pc = "done" => Cardinality(ResultEvents) = 1)
C10_Witness ==
    /\ "waitForNavigation" \in faults
    /\ pc = "done"
    /\ Len(finalHtml) >= 1
    /\ ResultEvents # {}

\* --------------------------------------------------------------- C11
C11_ExtractionFailed == Rejected # {}
\* C11: when an extraction request is rejected the invocation still
\* completes: the failure does not leave scrapeProfiles as an exception, the
\* browser is closed and the finished invocation has delivered one result
\* whose records are the degraded records of the fragments.
C11_ExtractionFailureCompletes ==
    C11_ExtractionFailed =>
      /\ all = "rejected"
      /\ pc \in {"awaitAll", "close", "done"}
      /\ FatalEvents = {}
      /\ (pc = "done" =>
            /\ browser = "closed"
            /\ ended = 1
            /\ Cardinality(ResultEvents) = 1
            /\ \A i \in ResultEvents :
                 events[i].data = [k \in 1..Len(finalHtml) |-> Degraded(finalHtml[k])])
C11_Witness ==
    /\ C11_ExtractionFailed
    /\ pc = "done"
    /\ Len(finalHtml) >= 1
    /\ ResultEvents # {}

\* --------------------------------------------------------------- C13
C13_AllFulfilled == Len(promises) >= 1 /\ Fulfilled = DOMAIN promises
\* the record r comes before the record t: an earlier request, or the same
\* request and an earlier position in its answer
SrcBefore(r, t) ==
    \/ r.src[1] < t.src[1]
    \/ r.src[1] = t.src[1] /\ r.src[2] < t.src[2]
\* C13: when all requests succeed, the results list the records of request
\* 1 first, then request 2, ..., each request's records in the order the
\* service returned them, whatever the order in which the requests completed.
C13_ResultOrder ==
    C13_AllFulfilled =>
      \A e \in ResultEvents :
        /\ Len(events[e].data) = Sum([i \in 1..Len(promises) |-> Len(promises[i].value)])
        /\ \A k, l \in DOMAIN events[e].data :
             k < l => SrcBefore(events[e].data[k], events[e].data[l])
C13_Witness ==
    /\ C13_AllFulfilled
    /\ \E e \in ResultEvents : Len(events[e].data) >= 2
    /\ \E a, b \in DOMAIN events :
         /\ a < b
         /\ events[a].message = "Successfully processed profile"
         /\ events[b].message = "Successfully processed profile"
         /\ events[a].index > events[b].index

\* --------------------------------------------------------------- C16
\* the fragments of the p-th PageBatch, from the history alone
Batch(p) == [j \in 1..batchSizes[p] |-> <<p, j>>]
\* C16: the number of extraction requests equals the number of PageBatches
\* collected, request p carries all fragments of batch p, and there are at
\* most 2 requests however many fragments a page holds.
C16_OneRequestPerBatch ==
    all # "none" =>
      /\ Len(promises) = Len(batchSizes)
      /\ Len(promises) <= 2
      /\ \A p \in DOMAIN promises :
           p \in DOMAIN batchSizes /\ <<RequestPayload(p)>> = Batch(p)

\* --------------------------------------------------------------- C17
PerRequestEvent(e) ==
    e.message \in {"Successfully processed profile", "Failed to process profile"}
BarrierEvent(e) ==
    \/ e.message \in {"All pages processed successfully.",
                      "OpenAI error processing pages",
                      "Closing browser", "Browser closed"}
    \/ e.event = "result"
C17_NoneAfterBarrier ==
    \A i, j \in DOMAIN events :
      (i < j /\ BarrierEvent(events[i])) => ~PerRequestEvent(events[j])
\* C17: no per-request progress event is emitted after the invocation-level
\* extraction outcome event, after the browser-close events, after the
\* result event, or after the stream has been ended.
C17_AggregationWaitsForAll ==
    /\ []C17_NoneAfterBarrier
    /\ [][ended >= 1 => events' = events]_vars

\* --------------------------------------------------------------- C12
C12_StreamRejected ==
    (pc \notin {"off", "request"} /\ ~req.url) =>
      /\ pc = "done"
      /\ events = <<Msg("error", "URL is required")>>
      /\ ended = 1
      /\ browser = "none"
      /\ faults = {}
      /\ loads = 0
      /\ all = "none"
C12_SyncRejected ==
    (epc \notin {"off", "request"} /\ ~body.url) =>
      /\ epc = "done"
      /\ sent = <<Response(400, <<>>)>>
      /\ ebrowser = "none"
      /\ openPages = 0
      /\ efaults = {}
      /\ profileCards = -1
\* C12: a request without a url is rejected before any resource is
\* acquired: the streaming variant emits exactly one event, the error, ends
\* the stream and launches no browser; the synchronous variant answers 400
\* and launches no browser.
C12_MissingUrlRejected == C12_StreamRejected /\ C12_SyncRejected
C12_Witness == pc = "done" /\ ~req.url /\ ended = 1 /\ Len(events) = 1

\* --------------------------------------------------------------- C14
\* C14: when no engine call outside the per-entity handling fails, the
\* finished enrichment answers with exactly one record per card found,
\* whatever happened to single entities (link missing, card gone on the
\* re-query, detail navigation failure, label wait timeout).
C14_OneRecordPerCard ==
    (epc = "done" /\ body.url /\ efaults = {}) =>
      /\ Len(sent) = 1
      /\ sent[1] = Response(200, results)
      /\ Len(results) = profileCards

\* --------------------------------------------------------------- C15
C15_Status ==
    /\ Len(sent) <= 1
    /\ (epc # "done" => sent = <<>>)
    /\ (epc = "done" =>
          /\ Len(sent) = 1
          /\ sent[1].status =
               (IF ~body.url THEN 400 ELSE IF efaults # {} THEN 500 ELSE 200)
          /\ (sent[1].status = 200 => sent[1].data = results))
\* C15: every request to the synchronous variant gets exactly one response:
\* 400 without a url, 500 when scrapeProfiles fails, else the result object.
C15_ExactlyOneResponse == <>(Len(sent) = 1) /\ []C15_Status
C15_Witness ==
    /\ epc = "done"
    /\ efaults \cap {"goto", "waitForSelector", "addCookies"} # {}
    /\ Len(sent) = 1
    /\ sent[1].status = 500

\* --------------------------------------------------------------- C18
\* C18: the secondary page of an entity is closed before the next entity is
\* processed whatever the entity's outcome, so at most one secondary page is
\* open at any time and none is open when the results are returned.
C18_SecondaryPageReleased ==
    /\ openPages \in {0, 1}
    /\ (epc \in {"refetch", "link", "openProfile", "closeBrowser", "done"}
          => openPages = 0)
    /\ (\A k \in DOMAIN sent : sent[k].status = 200 => openPages = 0)
C18_Witness ==
    /\ Len(entityLog) = 2
    /\ entityLog[1].env = "navFail"
    /\ entityLog[2].env = "waitTimeout"
    /\ \E k \in DOMAIN sent : sent[k].status = 200

\* --------------------------------------------------------------- C19
\* C19: when the detail page loads but the wait for the "Current company:"
\* control times out, or its label does not match the pattern, the entity's
\* record is the normal record with currentCompany null, not an error record.
C19_NullCompanyNotError ==
    \A k \in DOMAIN entityLog :
      entityLog[k].env \in {"waitTimeout", "noMatch"} =>
        \E r \in DOMAIN results :
          results[r] = NormalRecord(entityLog[k].card, "null")

====
